---- MODULE Spec2Model ----
(***************************************************************************)
(* FileCopyManager of copy_files_tool.py: the chunked, resumable copy      *)
(* engine (copy_file_with_progress), the change detector                   *)
(* (should_copy_file) and the run loop (start_copy), together with the     *)
(* controller that writes pause_flag and stop_flag from another thread.    *)
(*                                                                         *)
(* A file is a record [exists, data, sec, frac]: data is its byte          *)
(* sequence, (sec, frac) its modification time split into whole seconds    *)
(* and the sub-second part.  The worker handles one file pair at a time;   *)
(* src and tgt hold the pair the worker is at, whose state on disk is      *)
(* drawn when the worker first looks at it.  Byte k of a source file is    *)
(* k, so a byte written at a wrong offset shows; a target byte either      *)
(* agrees with that pattern or is the foreign byte 0.                      *)
(*                                                                         *)
(* Spec is one run of start_copy under the controller.  UISpec adds the    *)
(* window's Start button, which begins further runs; RerunSpec is UISpec   *)
(* over trees that are followed from run to run on a file system that      *)
(* raises no error; DetectSpec is should_copy_file applied to one pair.     *)
(***************************************************************************)
EXTENDS Integers, Sequences, FiniteSets, TLC

\* ---------------------------------------------------------------- bounds
MaxLen == 2        \* longest file, in bytes
MaxFiles == 2      \* most files the walk returns
MaxRuns == 2       \* most runs started from the window

\* chunk_size of the engine, scaled from 4 MiB to one byte of the model
ChunkSize == 1

Modes == {"fast", "hash"}

VARIABLES
    pause_flag, stop_flag,          \* FileCopyManager control flags
    detection_mode, delete_after_copy,
    hash_db,                        \* keys of hash_db: indices of the files recorded
    hash_put,                       \* digest recorded for the pair the worker is at
    pc,                             \* where the worker thread is
    total, index,                   \* len(files), loop index (1-based)
    copied, skipped, failed,        \* counters of start_copy
    src, tgt,                       \* the file pair the worker is at
    file_size, existing_size, copied_bytes,   \* locals of the engine
    src_open, dst_open,             \* file handles of the engine
    result,                         \* what the engine returned
    summaries,                      \* complete_callback messages, in order
    saves,                          \* number of save_hash_db calls
    last_note,                      \* channel of the latest notification
    file_notes,                     \* per-file progress notifications of the pair
    start_tgt,                      \* what the target was when the engine was invoked
    wlog,                           \* byte positions written by this invocation
    fallback,                       \* the engine gave up resuming in place
    rm_failed,                      \* os.remove of the cancelled target raised
    stop_seen,                      \* the worker has read stop_flag as true
    hist,                           \* per-outcome file counts of the run
    waited,                         \* this invocation of the engine sat in its pause wait
    btn_start,                      \* ModernWindow.btn_start is enabled
    old_workers,                    \* worker threads of earlier runs still in start_copy
    run,                            \* number of the run: Start clicks so far
    prev,                           \* how the run before this one ended
    tree,                           \* the file pairs on disk, where followed across runs
    io_errors,                      \* file system calls can raise in this environment
    verdict, dfault,                \* should_copy_file on its own: result, raising calls
    log_lost,                       \* a line of this run could not be written to LOG_FILE
    db_written,                     \* save_hash_db of this run wrote HASH_DB_FILE
    persist_errors                  \* writes to LOG_FILE and HASH_DB_FILE can raise

vars == <<pause_flag, stop_flag, detection_mode, delete_after_copy, hash_db,
          hash_put, pc, total, index, copied, skipped, failed, src, tgt,
          file_size, existing_size, copied_bytes, src_open, dst_open, result,
          summaries, saves, last_note, file_notes, start_tgt, wlog, fallback,
          rm_failed, stop_seen, hist, waited, btn_start, old_workers, run,
          prev, tree, io_errors, verdict, dfault, log_lost, db_written,
          persist_errors>>

ctl == <<pause_flag, stop_flag>>
cfgv == <<detection_mode, delete_after_copy>>
cnt == <<copied, skipped, failed>>
eng == <<file_size, existing_size, copied_bytes, src_open, dst_open>>
inv == <<start_tgt, wlog, fallback, rm_failed, waited>>
hdb == <<hash_db, hash_put>>
ui == <<btn_start, old_workers, run, prev>>
envv == <<tree, io_errors>>
det == <<verdict, dfault>>
pst == <<log_lost, db_written, persist_errors>>

\* ---------------------------------------------------------------- files
Min(a, b) == IF a < b THEN a ELSE b

\* The content of a source file of n bytes.
SrcData(n) == [i \in 1..n |-> i]

\* The contents a target file of at most n bytes can have.
TgtDatas(n) == UNION {{d \in [1..k -> 0..k] : \A i \in 1..k : d[i] \in {0, i}} : k \in 0..n}

Absent == [exists |-> FALSE, data |-> <<>>, sec |-> 0, frac |-> 0]

File(d, s, f) == [exists |-> TRUE, data |-> d, sec |-> s, frac |-> f]

\* Whole seconds of the modification times of the files found on disk; a file
\* written by the run gets NowSec, later than all of them.
InputSecs == {1, 2}
NowSec == Cardinality(InputSecs) + 1

\* Source files the walk can return, and the states their targets can be in.
SrcFiles == {File(SrcData(n), 1, 1) : n \in 0..MaxLen}
TgtFiles == {Absent} \cup {File(d, s, 0) : d \in TgtDatas(MaxLen), s \in InputSecs}

\* SHA-256 of a byte sequence, as a collision-free code of the sequence;
\* 0 stands for None (the digest could not be computed).
RECURSIVE Digest(_)
Digest(d) ==
    IF d = <<>> THEN 1
    ELSE (MaxLen + 3) * Digest(SubSeq(d, 1, Len(d) - 1)) + d[Len(d)] + 1

get_file_hash(f, fault) == IF fault \/ ~f.exists THEN 0 ELSE Digest(f.data)

Decision(c, r, calls) == [copy |-> c, reason |-> r, reads |-> calls]

should_copy_file_ExactTime(s, t, mode, df) ==
    IF ~t.exists THEN Decision(TRUE, "new", {})
    ELSE IF "stat" \in df THEN Decision(TRUE, "stat_failed", {"stat"})
    ELSE IF mode = "fast"
         THEN IF Len(s.data) = Len(t.data) /\ s.sec = t.sec /\ s.frac = t.frac
              THEN Decision(FALSE, "same_size_time", {"stat"})
              ELSE Decision(TRUE, "size_or_time", {"stat"})
    ELSE LET src_hash == get_file_hash(s, "src_hash" \in df)
             dst_hash == get_file_hash(t, "dst_hash" \in df)
         IN  IF src_hash = 0 \/ dst_hash = 0
             THEN Decision(TRUE, "hash_failed", {"stat", "hash"})
             ELSE IF src_hash # dst_hash
                  THEN Decision(TRUE, "hash_differs", {"stat", "hash"})
                  ELSE Decision(FALSE, "same_hash", {"stat", "hash"})

should_copy_file_FastFirst(s, t, mode, df) ==
    IF ~t.exists THEN Decision(TRUE, "new", {})
    ELSE IF "stat" \in df THEN Decision(TRUE, "stat_failed", {"stat"})
    ELSE IF Len(s.data) = Len(t.data) /\ s.sec = t.sec
         THEN Decision(FALSE, "same_size_time", {"stat"})
    ELSE IF mode = "fast" THEN Decision(TRUE, "size_or_time", {"stat"})
    ELSE LET src_hash == get_file_hash(s, "src_hash" \in df)
             dst_hash == get_file_hash(t, "dst_hash" \in df)
         IN  IF src_hash = 0 \/ dst_hash = 0
             THEN Decision(TRUE, "hash_failed", {"stat", "hash"})
             ELSE IF src_hash # dst_hash
                  THEN Decision(TRUE, "hash_differs", {"stat", "hash"})
                  ELSE Decision(FALSE, "same_hash", {"stat", "hash"})

should_copy_file_StatFirst(s, t, mode, df) ==
    IF "stat" \in df THEN Decision(TRUE, "stat_failed", {"stat"})
    ELSE IF ~t.exists THEN Decision(TRUE, "new", {"stat"})
    ELSE IF mode = "fast"
         THEN IF Len(s.data) = Len(t.data) /\ s.sec = t.sec
              THEN Decision(FALSE, "same_size_time", {"stat"})
              ELSE Decision(TRUE, "size_or_time", {"stat"})
    ELSE LET src_hash == get_file_hash(s, "src_hash" \in df)
             dst_hash == get_file_hash(t, "dst_hash" \in df)
         IN  IF src_hash = 0 \/ dst_hash = 0
             THEN Decision(TRUE, "hash_failed", {"stat", "hash"})
             ELSE IF src_hash # dst_hash
                  THEN Decision(TRUE, "hash_differs", {"stat", "hash"})
                  ELSE Decision(FALSE, "same_hash", {"stat", "hash"})

should_copy_file_NoneEqual(s, t, mode, df) ==
    IF ~t.exists THEN Decision(TRUE, "new", {})
    ELSE IF "stat" \in df THEN Decision(TRUE, "stat_failed", {"stat"})
    ELSE IF mode = "fast"
         THEN IF Len(s.data) = Len(t.data) /\ s.sec = t.sec
              THEN Decision(FALSE, "same_size_time", {"stat"})
              ELSE Decision(TRUE, "size_or_time", {"stat"})
    ELSE LET src_hash == get_file_hash(s, "src_hash" \in df)
             dst_hash == get_file_hash(t, "dst_hash" \in df)
         IN  IF src_hash # dst_hash
             THEN Decision(TRUE, "hash_differs", {"stat", "hash"})
             ELSE Decision(FALSE, "same_hash", {"stat", "hash"})

\* should_copy_file: df is the set of calls that raise in this invocation;
\* reads is what the invocation read of the two files: their metadata
\* (os.stat), their content (get_file_hash).
should_copy_file(s, t, mode, df) ==
    IF ~t.exists THEN Decision(TRUE, "new", {})
    ELSE IF "stat" \in df THEN Decision(TRUE, "stat_failed", {"stat"})
    ELSE IF mode = "fast"
         THEN IF Len(s.data) = Len(t.data) /\ s.sec = t.sec
              THEN Decision(FALSE, "same_size_time", {"stat"})
              ELSE Decision(TRUE, "size_or_time", {"stat"})
    ELSE LET src_hash == get_file_hash(s, "src_hash" \in df)
             dst_hash == get_file_hash(t, "dst_hash" \in df)
         IN  IF src_hash = 0 \/ dst_hash = 0
             THEN Decision(TRUE, "hash_failed", {"stat", "hash"})
             ELSE IF src_hash # dst_hash
                  THEN Decision(TRUE, "hash_differs", {"stat", "hash"})
                  ELSE Decision(FALSE, "same_hash", {"stat", "hash"})

DetectFaults == {{}, {"stat"}, {"src_hash"}, {"dst_hash"}, {"src_hash", "dst_hash"}}

\* The outcomes of a call that can raise: all of S where the file system can
\* fail, only the outcome ok where it cannot.
Raising(S, ok) == IF io_errors THEN S ELSE {ok}

\* Whether a write to LOG_FILE or HASH_DB_FILE raises.
Persisting == IF persist_errors THEN BOOLEAN ELSE {FALSE}

\* Lines 127-137: self.log, called if b: the write to LOG_FILE is inside a
\* try whose except passes; a line that could not be written is lost.
Logged(b) == \E lf \in Persisting : log_lost' = (log_lost \/ (b /\ lf))

\* dst.write(chunk) at byte offset off of a file holding d.
WriteAt(d, off, chunk) ==
    SubSeq(d, 1, off) \o chunk \o SubSeq(d, off + Len(chunk) + 1, Len(d))

\* What the engine finds as the target of source s: whether it exists, its
\* size, and whether its bytes are the first bytes of s.
Found(s, t) ==
    [exists |-> t.exists,
     size |-> Len(t.data),
     prefix |-> t.exists /\ Len(t.data) <= Len(s.data)
                /\ t.data = SubSeq(s.data, 1, Len(t.data))]

NotFound == [exists |-> FALSE, size |-> 0, prefix |-> FALSE]

Note(p, k) == [pct |-> p, kind |-> k]

TerminalNote_SilentCancel(r) ==
    IF r = "success" THEN Note(100, "done")
    ELSE IF r = "cancelled" THEN Note(0, "chunk")
    ELSE Note(0, "failed")

\* Lines 427, 432, 436: the per-file notification start_copy emits for what
\* the engine returned.
TerminalNote(r) ==
    IF r = "success" THEN Note(100, "done")
    ELSE IF r = "cancelled" THEN Note(0, "cancelled")
    ELSE Note(0, "failed")

NoVerdict == [copy |-> FALSE, reason |-> "none", reads |-> {}]

NoPrev == [clean |-> FALSE, total |-> 0]

\* The pairs are not followed across runs: each is drawn when the worker
\* first looks at it.
AnyTree == [known |-> FALSE, files |-> <<>>]

OnDisk(p) == p.src.exists

\* get_all_files: the files os.walk finds under the source root.
Walk == IF tree.known THEN {Len(SelectSeq(tree.files, OnDisk))} ELSE 0..MaxFiles

\* The pair at the loop index, as it is on disk.
Pairs ==
    IF tree.known THEN {tree.files[index]}
    ELSE [src : SrcFiles, tgt : TgtFiles]

NoHist == [started |-> 0, success |-> 0, skip |-> 0, failed |-> 0, cancelled |-> 0]

Summary(k) == [kind |-> k, copied |-> copied, skipped |-> skipped, failed |-> failed]

\* ---------------------------------------------------------------- Init
\* After FileCopyManager.__init__ and Thread.start(): the worker has not yet
\* run the first line of start_copy.
Constructed ==
    /\ pause_flag = FALSE
    /\ stop_flag = FALSE
    /\ hash_db = {}
    /\ hash_put = 0
    /\ total = 0
    /\ index = 0
    /\ copied = 0
    /\ skipped = 0
    /\ failed = 0
    /\ file_size = 0
    /\ existing_size = 0
    /\ copied_bytes = 0
    /\ src_open = FALSE
    /\ dst_open = FALSE
    /\ result = "none"
    /\ summaries = <<>>
    /\ saves = 0
    /\ last_note = "none"
    /\ file_notes = <<>>
    /\ start_tgt = NotFound
    /\ wlog = <<>>
    /\ fallback = FALSE
    /\ rm_failed = FALSE
    /\ stop_seen = FALSE
    /\ hist = NoHist
    /\ waited = FALSE
    /\ btn_start = FALSE
    /\ old_workers = 0
    /\ run = 1
    /\ prev = NoPrev
    /\ log_lost = FALSE
    /\ db_written = FALSE

Init ==
    /\ Constructed
    /\ detection_mode \in Modes
    /\ delete_after_copy \in BOOLEAN
    /\ pc = "start"
    /\ src = Absent
    /\ tgt = Absent
    /\ tree = AnyTree
    /\ io_errors = TRUE
    /\ persist_errors = FALSE
    /\ verdict = NoVerdict
    /\ dfault = {}

\* The same, over a source tree of up to MaxFiles files and an empty target
\* tree, both followed across runs, on a file system that raises no error.
RerunInit ==
    /\ Constructed
    /\ detection_mode \in Modes
    /\ delete_after_copy \in BOOLEAN
    /\ pc = "start"
    /\ src = Absent
    /\ tgt = Absent
    /\ \E n \in 0..MaxFiles :
        tree \in [known : {TRUE}, files : [1..n -> [src : SrcFiles, tgt : {Absent}]]]
    /\ io_errors = FALSE
    /\ persist_errors = FALSE
    /\ verdict = NoVerdict
    /\ dfault = {}

\* A source tree of one file and an empty target tree, both followed across
\* runs, on a file system whose calls can raise.
RetryInit ==
    /\ Constructed
    /\ detection_mode \in Modes
    /\ delete_after_copy = FALSE
    /\ pc = "start"
    /\ src = Absent
    /\ tgt = Absent
    /\ tree \in [known : {TRUE}, files : [{1} -> [src : SrcFiles, tgt : {Absent}]]]
    /\ io_errors = TRUE
    /\ persist_errors = FALSE
    /\ verdict = NoVerdict
    /\ dfault = {}

\* As Init, on a machine where the writes to the log file and to the hash
\* store can raise as well.
PersistInit ==
    /\ Constructed
    /\ detection_mode \in Modes
    /\ delete_after_copy \in BOOLEAN
    /\ pc = "start"
    /\ src = Absent
    /\ tgt = Absent
    /\ tree = AnyTree
    /\ io_errors = TRUE
    /\ persist_errors = TRUE
    /\ verdict = NoVerdict
    /\ dfault = {}

\* should_copy_file about to be called on a pair, outside any run.
DetectInit ==
    /\ Constructed
    /\ detection_mode \in Modes
    /\ delete_after_copy = FALSE
    /\ pc = "detect"
    /\ src \in SrcFiles
    /\ tgt \in TgtFiles
    /\ tree = AnyTree
    /\ io_errors = TRUE
    /\ persist_errors = FALSE
    /\ verdict = NoVerdict
    /\ dfault \in DetectFaults

\* ---------------------------------------------------------------- start_copy
Notify(ch) == last_note' = ch

StartCopy_KeepsFlags ==
    /\ pc = "start"
    /\ tree' = [tree EXCEPT !.files = SelectSeq(@, OnDisk)]
    /\ \E n \in Walk :
        /\ total' = n
        /\ IF n = 0
           THEN /\ summaries' = Append(summaries,
                        [kind |-> "empty", copied |-> 0, skipped |-> 0, failed |-> 0])
                /\ Notify("complete")
                /\ pc' = "done"
                /\ index' = index
           ELSE /\ pc' = "check_stop"
                /\ index' = 1
                /\ UNCHANGED <<summaries, last_note>>
    /\ Logged(TRUE)
    /\ copied' = 0
    /\ skipped' = 0
    /\ failed' = 0
    /\ UNCHANGED <<ctl, cfgv, ui, io_errors, det, db_written, persist_errors, hdb, src, tgt, eng, result, saves, file_notes,
                   inv, stop_seen, hist>>

\* Lines 375-395: reset the flags, walk the source tree, zero the counters.
\* An unreadable root makes os.walk yield nothing: n = 0.
StartCopy ==
    /\ pc = "start"
    /\ pause_flag' = FALSE
    /\ stop_flag' = FALSE
    /\ tree' = [tree EXCEPT !.files = SelectSeq(@, OnDisk)]
    /\ \E n \in Walk :
        /\ total' = n
        /\ IF n = 0
           THEN /\ summaries' = Append(summaries,
                        [kind |-> "empty", copied |-> 0, skipped |-> 0, failed |-> 0])
                /\ Notify("complete")
                /\ pc' = "done"
                /\ index' = index
           ELSE /\ pc' = "check_stop"
                /\ index' = 1
                /\ UNCHANGED <<summaries, last_note>>
    /\ Logged(TRUE)
    /\ copied' = 0
    /\ skipped' = 0
    /\ failed' = 0
    /\ UNCHANGED <<cfgv, ui, io_errors, det, db_written, persist_errors, hdb, src, tgt, eng, result, saves, file_notes, inv,
                   stop_seen, hist>>

\* Lines 398-404: the per-file stop check at the head of the loop body.
CheckStop ==
    /\ pc = "check_stop"
    /\ Logged(stop_flag)
    /\ IF stop_flag
       THEN /\ summaries' = Append(summaries, Summary("stopped"))
            /\ Notify("complete")
            /\ stop_seen' = TRUE
            /\ pc' = "done"
       ELSE /\ pc' = "pause_wait"
            /\ UNCHANGED <<summaries, last_note, stop_seen>>
    /\ UNCHANGED <<ctl, cfgv, ui, envv, det, db_written, persist_errors, hdb, total, index, cnt, src, tgt, eng, result, saves,
                   file_notes, inv, hist>>

FileWaitOver_NoPoll == TRUE

\* Line 407: the between-files wait loop is over.
FileWaitOver == ~(pause_flag /\ ~stop_flag)

\* Lines 406-408: while self.pause_flag and not self.stop_flag: sleep.  The
\* step is the loop's exit; stop is read only when pause was read as true.
PauseWait ==
    /\ pc = "pause_wait"
    /\ FileWaitOver
    /\ stop_seen' = (stop_seen \/ (pause_flag /\ stop_flag))
    /\ pc' = "verdict"
    /\ UNCHANGED <<ctl, cfgv, ui, envv, det, pst, hdb, total, index, cnt, src, tgt, eng, result,
                   summaries, saves, last_note, file_notes, inv, hist>>

AfterFile_NoSummary ==
    /\ IF index < total
       THEN index' = index + 1 /\ pc' = "check_stop"
       ELSE index' = index /\ pc' = "done"
    /\ src' = Absent
    /\ tgt' = Absent

\* Line 397: the end of one iteration: the next file, or the code after the
\* loop.  The worker lets go of the pair it was at.
AfterFile ==
    /\ IF index < total
       THEN index' = index + 1 /\ pc' = "check_stop"
       ELSE index' = index /\ pc' = "finish"
    /\ src' = Absent
    /\ tgt' = Absent

\* Lines 410-420 and 438-441: status and overall progress notifications, the
\* verdict on the pair found on disk, and the skip branch.
Verdict ==
    /\ pc = "verdict"
    /\ \E p \in Pairs, df \in Raising(DetectFaults, {}) :
        LET v == should_copy_file(p.src, p.tgt, detection_mode, df) IN
        /\ Notify("file")
        /\ Logged(~v.copy \/ v.reason \in {"stat_failed", "hash_failed"})
        /\ IF v.copy
           THEN /\ src' = p.src
                /\ tgt' = p.tgt
                /\ file_notes' = <<Note(0, "start")>>
                /\ hist' = [hist EXCEPT !.started = @ + 1]
                /\ pc' = "open"
                /\ UNCHANGED <<index, skipped>>
           ELSE /\ file_notes' = <<Note(0, "start"), Note(100, "skipped")>>
                /\ hist' = [hist EXCEPT !.started = @ + 1, !.skip = @ + 1]
                /\ skipped' = skipped + 1
                /\ AfterFile
    /\ UNCHANGED <<ctl, cfgv, ui, envv, det, db_written, persist_errors, hdb, total, copied, failed, eng, result, summaries,
                   saves, inv, stop_seen>>

CountAs_CancelledFails(r) == IF r = "success" THEN "copied" ELSE "failed"

CountAs_FailedDropped(r) == IF r = "success" THEN "copied" ELSE "none"

\* Lines 425-437: the counter an engine result adds to: True -> copied,
\* None -> no counter, anything else -> failed.
CountAs(r) ==
    IF r = "success" THEN "copied"
    ELSE IF r = "cancelled" THEN "none"
    ELSE "failed"

\* Lines 425-437: what start_copy does with the engine's return value.
Classify ==
    /\ pc = "classify"
    /\ copied' = IF CountAs(result) = "copied" THEN copied + 1 ELSE copied
    /\ failed' = IF CountAs(result) = "failed" THEN failed + 1 ELSE failed
    /\ Notify("file")
    /\ Logged(TRUE)
    /\ file_notes' = Append(file_notes, TerminalNote(result))
    /\ tree' = IF tree.known
               THEN [tree EXCEPT !.files[index] = [src |-> src, tgt |-> tgt]]
               ELSE tree
    /\ AfterFile
    /\ result' = "none"
    /\ file_size' = 0
    /\ existing_size' = 0
    /\ copied_bytes' = 0
    /\ src_open' = FALSE
    /\ dst_open' = FALSE
    /\ start_tgt' = NotFound
    /\ wlog' = <<>>
    /\ fallback' = FALSE
    /\ rm_failed' = FALSE
    /\ waited' = FALSE
    /\ hash_put' = 0
    /\ UNCHANGED <<ctl, cfgv, ui, io_errors, det, db_written, persist_errors, hash_db, total, skipped, summaries,
                   saves, stop_seen, hist>>

Complete_SaveAborts ==
    /\ pc = "finish"
    /\ saves' = saves + 1
    /\ \E sf \in Persisting :
        /\ db_written' = ~sf
        /\ IF sf
           THEN UNCHANGED <<summaries, last_note>>
           ELSE summaries' = Append(summaries, Summary("complete")) /\ Notify("complete")
    /\ Logged(TRUE)
    /\ pc' = "done"
    /\ UNCHANGED <<ctl, cfgv, ui, envv, det, persist_errors, hdb, total, index, cnt, src, tgt, eng, result,
                   file_notes, inv, stop_seen, hist>>

\* Lines 443-456: after the loop, save_hash_db and the completion summary.
Complete ==
    /\ pc = "finish"
    /\ saves' = saves + 1
    /\ \E sf \in Persisting : db_written' = ~sf
    /\ Logged(TRUE)
    /\ summaries' = Append(summaries, Summary("complete"))
    /\ Notify("complete")
    /\ pc' = "done"
    /\ UNCHANGED <<ctl, cfgv, ui, envv, det, persist_errors, hdb, total, index, cnt, src, tgt, eng, result,
                   file_notes, inv, stop_seen, hist>>

\* ---------------------------------------------------------------- copy_file_with_progress
\* The call that raises during lines 192-246, if any:
\*   pre      makedirs or getsize(source)      -> Failed, nothing touched
\*   tsize    getsize(target)                  -> existing_size = 0
\*   remove   os.remove of the stale target    -> the stale target stays
\*   opensrc  open(source, "rb")               -> Failed
\*   rplus    open(target, "r+b")              -> open(target, "wb") instead
\*   opendst  open(target, "wb")               -> Failed
\*   seek     src.seek / dst.seek              -> truncate and restart at 0
OpenFaults == {"none", "pre", "tsize", "remove", "opensrc", "rplus", "opendst", "seek"}

\* The engine returns r to start_copy.
Return(r) ==
    /\ result' = r
    /\ hist' = [hist EXCEPT ![r] = @ + 1]
    /\ pc' = "classify"

\* Lines 192-246: sizes, the stale (longer) target, the two opens, the seek.
EngineOpen ==
    /\ pc = "open"
    /\ \E of \in Raising(OpenFaults, "none") :
        LET size == Len(src.data)
            ex0 == IF tgt.exists /\ of # "tsize" THEN Len(tgt.data) ELSE 0
            removed == ex0 > size /\ of # "remove"
            ex1 == IF removed THEN 0 ELSE ex0
            t1 == IF removed THEN Absent ELSE tgt
            rplus == ex1 > 0 /\ of # "rplus"
            resume == rplus /\ of # "seek"
            t2 == IF resume THEN t1 ELSE File(<<>>, NowSec, 0)
        IN  /\ start_tgt' = Found(src, tgt)
            /\ IF of = "pre"
               THEN /\ Return("failed")
                    /\ UNCHANGED <<tgt, file_size, existing_size, src_open, dst_open,
                                   fallback>>
               ELSE IF of = "opensrc" \/ (~rplus /\ of = "opendst")
               THEN /\ Return("failed")
                    /\ tgt' = t1
                    /\ file_size' = size
                    /\ existing_size' = ex1
                    /\ UNCHANGED <<src_open, dst_open, fallback>>
               ELSE /\ tgt' = t2
                    /\ file_size' = size
                    /\ existing_size' = IF resume THEN ex1 ELSE 0
                    /\ fallback' = (tgt.exists /\ Len(tgt.data) > 0 /\ ~removed
                                    /\ ~resume)
                    /\ src_open' = TRUE
                    /\ dst_open' = TRUE
                    /\ pc' = "loop"
                    /\ UNCHANGED <<result, hist>>
    /\ UNCHANGED <<ctl, cfgv, ui, envv, det, pst, hdb, total, index, cnt, src, copied_bytes, wlog,
                   rm_failed, waited, summaries, saves, last_note, file_notes, stop_seen>>

Cancel_KeepPartial(rm) ==
    /\ dst_open' = FALSE
    /\ tgt' = tgt
    /\ rm_failed' = FALSE
    /\ stop_seen' = TRUE
    /\ Logged(tgt.exists)
    /\ Return("cancelled")
    /\ UNCHANGED <<file_size, existing_size, copied_bytes, src_open>>

\* Lines 251-262 and 271-283: stop was read as true.  dst is closed, the target
\* is removed unless os.remove raises (rm), and None is returned; src is not
\* closed on this path.
Cancel(rm) ==
    /\ dst_open' = FALSE
    /\ tgt' = IF tgt.exists /\ ~rm THEN Absent ELSE tgt
    /\ rm_failed' = (tgt.exists /\ rm)
    /\ stop_seen' = TRUE
    /\ Logged(tgt.exists)
    /\ Return("cancelled")
    /\ UNCHANGED <<file_size, existing_size, copied_bytes, src_open>>

EngineLoop_PauseFirst ==
    /\ pc = "loop"
    /\ IF pause_flag
       THEN /\ pc' = "epause"
            /\ UNCHANGED <<tgt, eng, result, hist, stop_seen, rm_failed, log_lost>>
       ELSE IF stop_flag
       THEN \E rm \in Raising(BOOLEAN, FALSE) : Cancel(rm)
       ELSE /\ pc' = "chunk"
            /\ UNCHANGED <<tgt, eng, result, hist, stop_seen, rm_failed, log_lost>>
    /\ waited' = (waited \/ pause_flag)
    /\ UNCHANGED <<ctl, cfgv, ui, envv, det, db_written, persist_errors, hdb, total, index, cnt, src, summaries, saves,
                   last_note, file_notes, start_tgt, wlog, fallback>>

EngineLoop_CancelOnPause ==
    /\ pc = "loop"
    /\ IF stop_flag \/ pause_flag
       THEN \E rm \in Raising(BOOLEAN, FALSE) : Cancel(rm)
       ELSE /\ pc' = "chunk"
            /\ UNCHANGED <<tgt, eng, result, hist, stop_seen, rm_failed, log_lost>>
    /\ waited' = (waited \/ (~stop_flag /\ pause_flag))
    /\ UNCHANGED <<ctl, cfgv, ui, envv, det, db_written, persist_errors, hdb, total, index, cnt, src, summaries, saves,
                   last_note, file_notes, start_tgt, wlog, fallback>>

\* Lines 249-265: head of one iteration of the copy loop: stop first, then pause.
EngineLoop ==
    /\ pc = "loop"
    /\ IF stop_flag
       THEN \E rm \in Raising(BOOLEAN, FALSE) : Cancel(rm)
       ELSE /\ pc' = IF pause_flag THEN "epause" ELSE "chunk"
            /\ UNCHANGED <<tgt, eng, result, hist, stop_seen, rm_failed, log_lost>>
    /\ waited' = (waited \/ (~stop_flag /\ pause_flag))
    /\ UNCHANGED <<ctl, cfgv, ui, envv, det, db_written, persist_errors, hdb, total, index, cnt, src, summaries, saves,
                   last_note, file_notes, start_tgt, wlog, fallback>>

EngineWaitOver_PauseOnly == ~pause_flag

\* Line 267: the engine's wait loop is over.
EngineWaitOver == ~(pause_flag /\ ~stop_flag)

EnginePauseWait_Rewinds ==
    /\ pc = "epause"
    /\ EngineWaitOver
    /\ ~stop_flag
    /\ pc' = "chunk"
    /\ copied_bytes' = 0
    /\ UNCHANGED <<tgt, file_size, existing_size, src_open, dst_open, result, hist,
                   stop_seen, rm_failed>>
    /\ UNCHANGED <<ctl, cfgv, ui, envv, det, pst, hdb, total, index, cnt, src, summaries, saves,
                   last_note, file_notes, start_tgt, wlog, fallback, waited>>

\* Lines 267-283: exit of the engine's pause wait, then the second stop check.
EnginePauseWait ==
    /\ pc = "epause"
    /\ EngineWaitOver
    /\ IF stop_flag
       THEN \E rm \in Raising(BOOLEAN, FALSE) : Cancel(rm)
       ELSE /\ pc' = "chunk"
            /\ UNCHANGED <<tgt, eng, result, hist, stop_seen, rm_failed, log_lost>>
    /\ UNCHANGED <<ctl, cfgv, ui, envv, det, db_written, persist_errors, hdb, total, index, cnt, src, summaries, saves,
                   last_note, file_notes, start_tgt, wlog, fallback, waited>>

Fail_AsCancelled ==
    /\ src_open' = FALSE
    /\ dst_open' = FALSE
    /\ Return("cancelled")
    /\ UNCHANGED <<file_size, existing_size, copied_bytes>>

\* Lines 350-359: an exception inside the loop: both handles closed, Failed.
Fail ==
    /\ src_open' = FALSE
    /\ dst_open' = FALSE
    /\ Return("failed")
    /\ UNCHANGED <<file_size, existing_size, copied_bytes>>

SrcOffset_NoSeek(existing, done) == done

\* Lines 239 and 285: the read position of src after src.seek(existing_size)
\* and the chunks read so far.
SrcOffset(existing, done) == existing + done

DstOffset_Stuck(existing, done) == existing

\* Lines 240 and 289: the write position of dst after dst.seek(existing_size)
\* and the chunks written so far.
DstOffset(existing, done) == existing + done

Percent_Remaining(existing, done, size) ==
    IF size > 0 THEN ((size - existing - done) * 100) \div size ELSE 100

\* Lines 305-306: int(total_copied * 100 / file_size), 100 for an empty file.
Percent(existing, done, size) ==
    IF size > 0 THEN ((existing + done) * 100) \div size ELSE 100

EngineChunk_FailDeletes ==
    /\ pc = "chunk"
    /\ SrcOffset(existing_size, copied_bytes) < Len(src.data)
    /\ \E io \in Raising(BOOLEAN, FALSE) :
        LET from == SrcOffset(existing_size, copied_bytes)
            off == DstOffset(existing_size, copied_bytes)
            chunk == SubSeq(src.data, from + 1, Min(from + ChunkSize, Len(src.data)))
            percent == Percent(existing_size, copied_bytes + Len(chunk), file_size)
        IN  IF io
            THEN /\ Fail
                 /\ tgt' = Absent
                 /\ UNCHANGED <<wlog, file_notes, last_note>>
            ELSE /\ tgt' = [tgt EXCEPT !.data = WriteAt(@, off, chunk),
                                       !.sec = NowSec, !.frac = 0]
                 /\ copied_bytes' = copied_bytes + Len(chunk)
                 /\ wlog' = wlog \o [i \in 1..Len(chunk) |-> off + i]
                 /\ file_notes' = Append(file_notes, Note(percent, "chunk"))
                 /\ Notify("file")
                 /\ pc' = "loop"
                 /\ UNCHANGED <<file_size, existing_size, src_open, dst_open, result, hist>>
    /\ UNCHANGED <<ctl, cfgv, ui, envv, det, pst, hdb, total, index, cnt, src, summaries, saves,
                   start_tgt, fallback, rm_failed, waited, stop_seen>>

\* Lines 285-310: read one chunk at the current offset, write it, report.
\* io: src.read or dst.write raises.
EngineChunk ==
    /\ pc = "chunk"
    /\ SrcOffset(existing_size, copied_bytes) < Len(src.data)
    /\ \E io \in Raising(BOOLEAN, FALSE) :
        LET from == SrcOffset(existing_size, copied_bytes)
            off == DstOffset(existing_size, copied_bytes)
            chunk == SubSeq(src.data, from + 1, Min(from + ChunkSize, Len(src.data)))
            percent == Percent(existing_size, copied_bytes + Len(chunk), file_size)
        IN  IF io
            THEN /\ Fail
                 /\ UNCHANGED <<tgt, wlog, file_notes, last_note>>
            ELSE /\ tgt' = [tgt EXCEPT !.data = WriteAt(@, off, chunk),
                                       !.sec = NowSec, !.frac = 0]
                 /\ copied_bytes' = copied_bytes + Len(chunk)
                 /\ wlog' = wlog \o [i \in 1..Len(chunk) |-> off + i]
                 /\ file_notes' = Append(file_notes, Note(percent, "chunk"))
                 /\ Notify("file")
                 /\ pc' = "loop"
                 /\ UNCHANGED <<file_size, existing_size, src_open, dst_open, result, hist>>
    /\ UNCHANGED <<ctl, cfgv, ui, envv, det, pst, hdb, total, index, cnt, src, summaries, saves,
                   start_tgt, fallback, rm_failed, waited, stop_seen>>

RemoveSource_Always(s, ff) == [s EXCEPT !.exists = FALSE]

\* Lines 341-346: os.remove(source_file) when delete_after_copy is set; ff is
\* the call that raises, if any.
RemoveSource(s, ff) ==
    IF delete_after_copy /\ ff # "rmsrc" THEN [s EXCEPT !.exists = FALSE] ELSE s

Records_AnyMode(mode, h) == h # 0

\* Lines 335-337: the digest of the target is recorded in hash mode, and only
\* if get_file_hash returned one.
Records(mode, h) == mode = "hash" /\ h # 0

\* The call that raises during lines 285-348, if any: the read, copystat, the
\* digest of the target, the removal of the source.
FinishFaults == {"none", "io", "copystat", "hash", "rmsrc"}

\* Lines 285-287 and 312-348: the read returns no bytes; close, copystat, the
\* final 100, the hash record in hash mode, the source removal, Success.
EngineFinish ==
    /\ pc = "chunk"
    /\ SrcOffset(existing_size, copied_bytes) >= Len(src.data)
    /\ \E ff \in Raising(FinishFaults, "none") :
        IF ff = "io"
        THEN /\ Fail
             /\ UNCHANGED <<tgt, src, hdb, file_notes, last_note, log_lost>>
        ELSE LET t1 == IF ff = "copystat" THEN tgt
                       ELSE [tgt EXCEPT !.sec = src.sec, !.frac = src.frac]
                 dst_hash == get_file_hash(t1, ff = "hash")
             IN  /\ src_open' = FALSE
                 /\ dst_open' = FALSE
                 /\ tgt' = t1
                 /\ file_notes' = Append(file_notes, Note(100, "final"))
                 /\ Notify("file")
                 /\ Logged(delete_after_copy \/ (detection_mode = "hash" /\ dst_hash = 0))
                 /\ IF Records(detection_mode, dst_hash)
                    THEN hash_db' = hash_db \cup {index} /\ hash_put' = dst_hash
                    ELSE UNCHANGED hdb
                 /\ src' = RemoveSource(src, ff)
                 /\ Return("success")
                 /\ UNCHANGED <<file_size, existing_size, copied_bytes>>
    /\ UNCHANGED <<ctl, cfgv, ui, envv, det, db_written, persist_errors, total, index, cnt, summaries, saves, inv, stop_seen>>

\* ---------------------------------------------------------------- controller
\* ModernWindow.toggle_pause and stop_copy write the flags from the UI thread.
Pause ==
    /\ pc # "done"
    /\ ~pause_flag
    /\ pause_flag' = TRUE
    /\ UNCHANGED <<stop_flag, cfgv, ui, envv, det, pst, hdb, pc, total, index, cnt, src, tgt, eng,
                   result, summaries, saves, last_note, file_notes, inv, stop_seen, hist>>

Resume ==
    /\ pc # "done"
    /\ pause_flag
    /\ pause_flag' = FALSE
    /\ UNCHANGED <<stop_flag, cfgv, ui, envv, det, pst, hdb, pc, total, index, cnt, src, tgt, eng,
                   result, summaries, saves, last_note, file_notes, inv, stop_seen, hist>>

Stop ==
    /\ pc # "done"
    /\ ~stop_flag
    /\ stop_flag' = TRUE
    /\ btn_start' = TRUE
    /\ UNCHANGED <<pause_flag, cfgv, old_workers, run, prev, envv, det, pst, hdb, pc, total, index, cnt, src, tgt, eng,
                   result, summaries, saves, last_note, file_notes, inv, stop_seen, hist>>

\* Where the worker is inside copy_file_with_progress.
EnginePcs == {"open", "loop", "epause", "chunk"}

\* ModernWindow.start_copy, lines 1348-1397: the Start button.  It builds a
\* new FileCopyManager and starts a new thread on it, whatever the thread of
\* the run before is doing; that thread, if it is still in start_copy, goes
\* on with the manager it was given.
Start ==
    /\ btn_start
    /\ run < MaxRuns
    /\ btn_start' = FALSE
    /\ run' = run + 1
    /\ old_workers' = old_workers + (IF pc = "done" THEN 0 ELSE 1)
    /\ prev' = [clean |-> /\ pc = "done"
                          /\ old_workers = 0
                          /\ summaries[1].kind # "stopped"
                          /\ hist.cancelled = 0,
                total |-> total]
    /\ tree' = IF tree.known /\ pc \in EnginePcs \cup {"classify"}
               THEN [tree EXCEPT !.files[index] = [src |-> src, tgt |-> tgt]]
               ELSE tree
    /\ pause_flag' = FALSE
    /\ stop_flag' = FALSE
    /\ hash_db' = IF db_written THEN hash_db ELSE {}
    /\ hash_put' = 0
    /\ pc' = "start"
    /\ total' = 0
    /\ index' = 0
    /\ copied' = 0
    /\ skipped' = 0
    /\ failed' = 0
    /\ src' = Absent
    /\ tgt' = Absent
    /\ file_size' = 0
    /\ existing_size' = 0
    /\ copied_bytes' = 0
    /\ src_open' = FALSE
    /\ dst_open' = FALSE
    /\ result' = "none"
    /\ summaries' = <<>>
    /\ saves' = 0
    /\ log_lost' = FALSE
    /\ db_written' = FALSE
    /\ last_note' = "none"
    /\ file_notes' = <<>>
    /\ start_tgt' = NotFound
    /\ wlog' = <<>>
    /\ fallback' = FALSE
    /\ rm_failed' = FALSE
    /\ waited' = FALSE
    /\ stop_seen' = FALSE
    /\ hist' = NoHist
    /\ UNCHANGED <<cfgv, io_errors, det, persist_errors>>

\* process_queue, lines 1464-1469: the window handles the "complete" message
\* of the worker and enables Start again.
ProcessQueue ==
    /\ pc = "done"
    /\ ~btn_start
    /\ btn_start' = TRUE
    /\ UNCHANGED <<ctl, cfgv, hdb, pc, total, index, cnt, src, tgt, eng, result,
                   summaries, saves, last_note, file_notes, inv, stop_seen, hist,
                   old_workers, run, prev, envv, det, pst>>

\* The thread of an earlier run leaves start_copy; its "complete" message is
\* handled by process_queue like any other (lines 1464-1469).
OldWorkerExit ==
    /\ old_workers > 0
    /\ old_workers' = old_workers - 1
    /\ btn_start' = TRUE
    /\ UNCHANGED <<ctl, cfgv, hdb, pc, total, index, cnt, src, tgt, eng, result,
                   summaries, saves, last_note, file_notes, inv, stop_seen, hist,
                   run, prev, envv, det, pst>>

\* should_copy_file called on the pair (src, tgt), the calls of dfault raising.
Decide ==
    /\ pc = "detect"
    /\ verdict' = should_copy_file(src, tgt, detection_mode, dfault)
    /\ pc' = "decided"
    /\ UNCHANGED <<ctl, cfgv, hdb, total, index, cnt, src, tgt, eng, result,
                   summaries, saves, last_note, file_notes, inv, stop_seen, hist,
                   ui, envv, dfault, pst>>

\* ---------------------------------------------------------------- specification
Worker ==
    \/ StartCopy
    \/ CheckStop
    \/ PauseWait
    \/ Verdict
    \/ EngineOpen
    \/ EngineLoop
    \/ EnginePauseWait
    \/ EngineChunk
    \/ EngineFinish
    \/ Classify
    \/ Complete

Controller == Pause \/ Resume \/ Stop

Next == Worker \/ Controller

Spec == Init /\ [][Next]_vars

\* The worker thread is scheduled: a step it can take for ever is taken.
FairSpec == Spec /\ WF_vars(Worker)

\* Besides, every pause is eventually cleared by the controller, and a wait
\* loop, which polls the flags every 0.1 s, gets to see a cleared pause even
\* if the controller pauses again later.
LiveSpec ==
    /\ Spec
    /\ WF_vars(Worker)
    /\ WF_vars(Resume)
    /\ SF_vars(PauseWait)
    /\ SF_vars(EnginePauseWait)

\* The window: runs started one after another with the Start button.
Window == Start \/ ProcessQueue \/ OldWorkerExit

UINext == Worker \/ Controller \/ Window

UISpec == Init /\ [][UINext]_vars

\* Runs one after another over trees followed across runs, with no I/O error.
RerunSpec == RerunInit /\ [][UINext]_vars

\* Runs one after another over one pair followed across runs, I/O errors
\* included.
RetrySpec == RetryInit /\ [][UINext]_vars

\* One run in which the log and hash store writes can raise too.
PersistSpec == PersistInit /\ [][Next]_vars

\* The same with the scheduling of LiveSpec: the worker thread runs, every
\* pause is eventually cleared and the wait loops get to see it.
PersistLiveSpec ==
    /\ PersistSpec
    /\ WF_vars(Worker)
    /\ WF_vars(Resume)
    /\ SF_vars(PauseWait)
    /\ SF_vars(EnginePauseWait)

\* The change detector on its own, over every pair and every raising call.
DetectSpec == DetectInit /\ [][Decide]_vars

\* ---------------------------------------------------------------- properties
\* The engine has just returned r to start_copy.
Returned(r) == pc = "classify" /\ result = r

\* C1: whenever copy_file_with_progress returns Success, the target holds
\* exactly the bytes of the source, whatever the target was before the call
\* (absent, shorter, same length with other bytes, longer).
C1_SuccessMeansIdentical ==
    Returned("success") => (tgt.exists /\ tgt.data = src.data)

\* The target the engine was invoked on is a non-empty prefix of the source:
\* what an interrupted copy of the unchanged source leaves behind.
ResumeStart ==
    /\ start_tgt.exists
    /\ start_tgt.size > 0
    /\ start_tgt.prefix

\* The engine wrote every byte position from+1 .. size once, in order, and the
\* target now equals the source.
WroteFrom(from) ==
    /\ existing_size = from
    /\ wlog = [i \in 1..(Len(src.data) - from) |-> from + i]
    /\ tgt.exists
    /\ tgt.data = src.data

\* C2 as stated: a copy re-invoked on a target that is the first N bytes of
\* the source starts writing at offset N and ends with the target equal to the
\* source, every byte position N+1 .. size written once.
C2_ResumeAtN ==
    (Returned("success") /\ ResumeStart) => WroteFrom(start_tgt.size)

\* C2 amended: it starts at offset N, or at offset 0 on a truncated target
\* when the target could not be sized, reopened for update or positioned; in
\* both cases the target ends equal to the source, every byte position from
\* the starting offset on written once.
C2_ResumeOrRestart ==
    (Returned("success") /\ ResumeStart) =>
        WroteFrom(IF fallback THEN 0 ELSE start_tgt.size)

\* A resumed copy that had bytes left to write has returned Success.
C2_Witness ==
    /\ Returned("success")
    /\ ResumeStart
    /\ ~fallback
    /\ start_tgt.size < Len(src.data)
    /\ wlog # <<>>


\* C3: every start_copy emits exactly one complete_callback, it is the last
\* notification of the run, and the run reaches it on every path, provided
\* every pause is eventually cleared (or followed by stop).
C3_OneCompletion ==
    /\ [](Len(summaries) <= 1)
    /\ [](Len(summaries) = 1 => (pc = "done" /\ last_note = "complete"))
    /\ [](pc = "done" => Len(summaries) = 1)
    /\ <>(pc = "done" /\ Len(summaries) = 1)

\* A run stopped while paused has ended with its one completion, the stopped
\* summary, as the last notification.
C3_Witness ==
    /\ pc = "done"
    /\ pause_flag
    /\ Len(summaries) = 1
    /\ summaries[1].kind = "stopped"
    /\ last_note = "complete"

\* C4: once stop_flag is true during a run (after the reset at its start),
\* the worker leaves any pause wait and the run reaches complete_callback,
\* even if pause_flag stays true for ever.
C4_StopNeverHangs ==
    (stop_flag /\ pc # "start") ~> (pc = "done" /\ Len(summaries) = 1)

\* The worker sits in the engine's pause wait, pause still set, stop raised.
C4_Witness == pc = "epause" /\ pause_flag /\ stop_flag

\* C5 as stated: when the engine returns Cancelled, the target file of that
\* copy does not exist: no partial target survives a stop.
C5_NoTargetAfterCancel == Returned("cancelled") => ~tgt.exists

\* C5 amended: when the engine returns Cancelled and os.remove of the target
\* did not raise, the target file of that copy does not exist.
C5_NoTargetUnlessRemoveFails ==
    (Returned("cancelled") /\ ~rm_failed) => ~tgt.exists

\* Stop was honoured after the engine had written part of the file.
C5_Witness ==
    /\ Returned("cancelled")
    /\ ~rm_failed
    /\ copied_bytes > 0
    /\ copied_bytes < file_size

\* C6: a run that ends because stop was observed has called save_hash_db by
\* the time the stopped summary is emitted.
C6_StopStillSaves ==
    (Len(summaries) = 1 /\ summaries[1].kind = "stopped") => saves = 1

\* C7: once the engine has returned Cancelled (stop set), the run ends with
\* the stopped summary carrying the current counters, never with the normal
\* completion summary, wherever the cancelled file is in the list.
C7_CancelEndsStopped ==
    (pc = "done" /\ hist.cancelled > 0) =>
        /\ summaries[1].kind = "stopped"
        /\ summaries[1].copied = copied
        /\ summaries[1].skipped = skipped
        /\ summaries[1].failed = failed

\* Files of outcome r that start_copy has already classified.
Settled(r) == hist[r] - (IF Returned(r) THEN 1 ELSE 0)

\* C8: each processed file moves the counters in one way only: skip ->
\* skipped, Success -> copied, Failed -> failed, Cancelled -> none; so
\* copied + skipped + failed never exceeds the files started, and a
\* cancellation is never counted as a failure.
C8_CountersMatchOutcomes ==
    /\ copied = Settled("success")
    /\ failed = Settled("failed")
    /\ skipped = hist.skip
    /\ copied + skipped + failed + Settled("cancelled") <= hist.started
    /\ copied + skipped + failed <= hist.started

\* A run of two files ended: one copied, one cancelled, none failed.
C8_Witness ==
    /\ pc = "done"
    /\ hist.started = 2
    /\ hist.cancelled = 1
    /\ copied = 1
    /\ failed = 0

\* C9: with no stop raised, a Failed file does not end the run: every file
\* is processed and the completion summary counts each failed file once.
C9_FailedDoesNotAbort ==
    (pc = "done" /\ ~stop_flag /\ total > 0) =>
        /\ Len(summaries) = 1
        /\ summaries[1].kind = "complete"
        /\ hist.started = total
        /\ summaries[1].failed = hist.failed
        /\ summaries[1].copied + summaries[1].skipped + summaries[1].failed = total

\* A run of several files, the first of which failed, went on and completed.
C9_Witness ==
    /\ pc = "done"
    /\ ~stop_flag
    /\ total >= 2
    /\ hist.failed = total

\* C10: after the worker has read stop_flag as true it starts no further
\* file: no verdict is computed, the engine is not entered (no target is
\* opened or deleted) and no counter changes.
C10_NoFileAfterStopSeen ==
    [][stop_seen =>
        /\ hist'.started = hist.started
        /\ pc' \notin {"open", "loop", "epause", "chunk"}
        /\ cnt' = cnt]_vars

\* Worker threads inside start_copy: those of earlier runs and the current one.
LiveWorkers == old_workers + (IF pc = "done" THEN 0 ELSE 1)

\* C11: at every moment at most one worker thread is executing start_copy,
\* whatever Start, Pause/Resume and Stop clicks the window gets; a new run
\* begins only after the worker of the run before has finished.
C11_OneWorkerAtATime == LiveWorkers <= 1

Contiguous ==
    /\ wlog = [i \in 1..copied_bytes |-> existing_size + i]
    /\ tgt.exists =>
        \A i \in 1..copied_bytes : tgt.data[existing_size + i] = src.data[existing_size + i]

\* What an uninterrupted copy leaves: every byte position from the starting
\* offset to the end of the source written once, nothing beyond.
SameAsUninterrupted ==
    /\ Contiguous
    /\ existing_size + copied_bytes = IF existing_size > file_size THEN existing_size
                                      ELSE file_size
    /\ Len(tgt.data) = existing_size + copied_bytes

Decided == pc = "decided"

HashFaults == {"src_hash", "dst_hash"}

\* C13: in Fast mode, with an existing target and readable metadata,
\* should_copy_file returns skip exactly when the sizes are equal and the
\* modification times agree in their whole seconds, whatever the bytes and
\* the sub-second parts are.
C13_FastSkipsOnSizeAndSecond ==
    (Decided /\ detection_mode = "fast" /\ tgt.exists /\ "stat" \notin dfault) =>
        (~verdict.copy <=> (Len(src.data) = Len(tgt.data) /\ src.sec = tgt.sec))

\* Fast mode skipped a target of the source's size and second whose bytes
\* and sub-second time differ from the source's.
C13_Witness ==
    /\ Decided
    /\ detection_mode = "fast"
    /\ "stat" \notin dfault
    /\ ~verdict.copy
    /\ tgt.data # src.data
    /\ tgt.frac # src.frac

\* C14 as stated: in Hash mode, with an existing target and both digests
\* computable, should_copy_file returns skip exactly when the two digests
\* are equal.
C14_HashSkipsOnEqualDigest ==
    (Decided /\ detection_mode = "hash" /\ tgt.exists /\ dfault \cap HashFaults = {}) =>
        (~verdict.copy <=> Digest(src.data) = Digest(tgt.data))

\* C14 amended: the same, provided os.stat of both files succeeds; when it
\* raises, the verdict is copy whatever the digests are.
C14_HashSkipsOnEqualDigestAfterStat ==
    (Decided /\ detection_mode = "hash" /\ tgt.exists /\ dfault \cap HashFaults = {}) =>
        IF "stat" \in dfault
        THEN verdict.copy
        ELSE ~verdict.copy <=> Digest(src.data) = Digest(tgt.data)

\* Hash mode skipped a target with the source's bytes and another
\* modification time.
C14_Witness ==
    /\ Decided
    /\ detection_mode = "hash"
    /\ dfault = {}
    /\ ~verdict.copy
    /\ tgt.sec # src.sec

\* C15: for a target that does not exist should_copy_file returns copy with
\* the reason "new file", in both modes, having read neither metadata nor
\* content, so whatever those reads would have raised.
C15_AbsentTargetIsNew ==
    (Decided /\ ~tgt.exists) =>
        (verdict.copy /\ verdict.reason = "new" /\ verdict.reads = {})

\* Hash mode, no target, on a file system where the digests would fail.
C15_Witness ==
    /\ Decided
    /\ ~tgt.exists
    /\ detection_mode = "hash"
    /\ dfault \cap HashFaults # {}
    /\ verdict.reason = "new"

\* C16: whenever os.stat raises, or in Hash mode a digest cannot be computed,
\* should_copy_file returns copy: no skip rests on a value that is missing.
C16_FailsOpen ==
    (Decided /\ ("stat" \in dfault \/ (detection_mode = "hash" /\ dfault \cap HashFaults # {})))
        => verdict.copy

\* Hash mode, identical files, neither digest computable: copy.
C16_Witness ==
    /\ Decided
    /\ detection_mode = "hash"
    /\ dfault = HashFaults
    /\ tgt.exists
    /\ tgt.data = src.data
    /\ verdict.copy
    /\ verdict.reason = "hash_failed"

\* C17: after copy_file_with_progress has returned Success for a pair,
\* should_copy_file on the same pair, nothing having changed in between,
\* returns skip, in either mode and whatever the target was before the copy.
C17_RoundTripSkips ==
    (Returned("success") /\ src.exists) =>
        ~should_copy_file(src, tgt, detection_mode, {}).copy

\* The run has ended without having seen a stop.
EndedUnstopped ==
    /\ pc = "done"
    /\ summaries[1].kind # "stopped"
    /\ hist.cancelled = 0

\* C18 as stated: with no stop and no I/O error, the first run over n files
\* and an empty target ends with copied = n, skipped = 0, failed = 0, and a
\* run started once it has ended, the trees being as it left them, ends with
\* copied = 0, skipped = n, failed = 0.
C18_CopyThenSkip ==
    /\ (EndedUnstopped /\ run = 1) =>
            (copied = total /\ skipped = 0 /\ failed = 0)
    /\ (EndedUnstopped /\ run = 2 /\ prev.clean) =>
            (copied = 0 /\ skipped = prev.total /\ failed = 0)

\* C18 amended: the same with delete_after_copy off; with it on, the first
\* run has removed the n sources, and the second finds no file: copied = 0,
\* skipped = 0, failed = 0.
C18_CopyThenSkipUnlessDeleted ==
    /\ (EndedUnstopped /\ run = 1) =>
            (copied = total /\ skipped = 0 /\ failed = 0)
    /\ (EndedUnstopped /\ run = 2 /\ prev.clean) =>
            /\ copied = 0
            /\ failed = 0
            /\ skipped = IF delete_after_copy THEN 0 ELSE prev.total
            /\ total = skipped

\* The second run over two files, copied by the first, skipped both.
C18_Witness ==
    /\ EndedUnstopped
    /\ run = 2
    /\ prev.clean
    /\ prev.total = 2
    /\ skipped = 2
    /\ copied = 0

TerminalKinds == {"done", "failed", "cancelled", "skipped"}

IsTerminal(n) == n.kind \in TerminalKinds

IsProgress(n) == ~IsTerminal(n)

\* The percent values of the file's progress notifications, in emission
\* order: the initial one of start_copy, the engine's per chunk, its final 100.
ProgressNotes == SelectSeq(file_notes, IsProgress)

\* C19 as stated: for each file the percent values of the per-file progress
\* notifications are strictly increasing in emission order.
C19_PercentStrictlyIncreasing ==
    \A i \in 1..(Len(ProgressNotes) - 1) : ProgressNotes[i].pct < ProgressNotes[i + 1].pct

\* C19 amended: they never decrease and stay within 0..100; the 100 of the
\* last chunk is repeated by the engine's final notification.
C19_PercentNeverDecreases ==
    /\ \A i \in 1..(Len(ProgressNotes) - 1) :
            ProgressNotes[i].pct <= ProgressNotes[i + 1].pct
    /\ \A i \in 1..Len(ProgressNotes) : ProgressNotes[i].pct \in 0..100

\* A copy of two chunks that sat in the pause wait has emitted 0, 50, 100 and
\* the final 100.
C19_Witness ==
    /\ Returned("success")
    /\ waited
    /\ Len(ProgressNotes) = 4
    /\ ProgressNotes[2].pct = 50
    /\ ProgressNotes[4].kind = "final"

\* The worker is between the engine's invocation and the classification of
\* what it returned: the file it is at has no outcome yet.
FileInProgress == pc \in EnginePcs \cup {"classify"}

\* C20: every file whose processing started gets exactly one terminal
\* per-file notification (done, failed, cancelled, skipped), none while it is
\* in progress, and no per-file notification of that file follows it.
C20_OneTerminalLast ==
    /\ hist.started > 0 => file_notes # <<>>
    /\ FileInProgress => \A i \in 1..Len(file_notes) : IsProgress(file_notes[i])
    /\ (~FileInProgress /\ file_notes # <<>>) =>
            /\ IsTerminal(file_notes[Len(file_notes)])
            /\ \A i \in 1..(Len(file_notes) - 1) : IsProgress(file_notes[i])

\* A file cancelled after a chunk was reported: the cancelled notification
\* came last.
C20_Witness ==
    /\ ~FileInProgress
    /\ Len(file_notes) > 2
    /\ file_notes[Len(file_notes)].kind = "cancelled"

\* C21: with delete_after_copy set, whenever the engine has deleted a source
\* file, the target holds exactly the content the source had, whatever the
\* target was before the copy.
C21_DeletedSourceIsInTarget ==
    (Returned("success") /\ ~src.exists) => (tgt.exists /\ tgt.data = src.data)

\* The source of the pair the engine works on is still there, as it was found.
SourceKept == src \in SrcFiles

\* C22: the engine removes a source file only on the Success path of its own
\* copy with delete_after_copy set; while a copy is under way, after a
\* Failed or Cancelled return, and always with the option off, the source is
\* in the source tree as it was found.
C22_SourceDeletedOnlyOnSuccess ==
    /\ pc \in EnginePcs => SourceKept
    /\ pc = "classify" =>
            IF result = "success" /\ delete_after_copy
            THEN src.data \in {s.data : s \in SrcFiles}
            ELSE SourceKept
    /\ tree.known => \A i \in 1..Len(tree.files) :
            ~tree.files[i].src.exists => delete_after_copy

\* A copy failed with the option on: its source is still there.
C22_Witness ==
    /\ Returned("failed")
    /\ delete_after_copy
    /\ copied_bytes > 0
    /\ src.exists

\* C23: a target that existed when copy_file_with_progress was invoked is
\* still there, no shorter than it was, after the engine returns Cancelled:
\* a stop deletes only what the invocation produced.
C23_StopKeepsEarlierTarget ==
    (Returned("cancelled") /\ start_tgt.exists) =>
        (tgt.exists /\ Len(tgt.data) >= start_tgt.size)

\* C24: a stop raised by the controller after the worker thread was started
\* stays raised until the run has ended: no step of the worker, the flag
\* reset at the head of start_copy included, clears it.
C24_StopIsNeverErased ==
    [][(stop_flag /\ pc # "done") => stop_flag']_vars

\* C25: the window handles a "complete" message, which enables Start and
\* disables Stop, only when no worker is inside start_copy any more.
C25_CompleteOnlyWhenIdle ==
    [][(ProcessQueue \/ OldWorkerExit) => LiveWorkers' = 0]_vars

\* C26: a target found larger than the source is discarded and the copy
\* restarts at offset 0: on Success the target has exactly the source's
\* length and content, also when the removal of the stale target failed.
C26_StaleTargetReplaced ==
    (Returned("success") /\ start_tgt.exists /\ start_tgt.size > file_size) =>
        (tgt.exists /\ tgt.data = src.data)

\* C27: whenever copy_file_with_progress returns after it opened the two
\* files, the source handle and the target handle are both closed.
C27_HandlesClosedOnReturn ==
    pc = "classify" => (~src_open /\ ~dst_open)

\* C28: at the head of the loop the engine looks at stop before pause: with
\* stop set it returns Cancelled from there, without entering the pause wait
\* and without a chunk; the flag is not cleared while the engine runs, and a
\* chunk written with stop already set leads back to the head of the loop:
\* at most one chunk is written after the stop.
C28_StopBeforePause ==
    /\ [][(pc = "loop" /\ stop_flag) =>
            (pc' = "loop" \/ (pc' = "classify" /\ result' = "cancelled" /\ wlog' = wlog))]_vars
    /\ [][(pc \in EnginePcs /\ stop_flag) => stop_flag']_vars
    /\ [][(pc \in EnginePcs /\ stop_flag /\ wlog' # wlog) =>
            (pc = "chunk" /\ pc' = "loop" /\ Len(wlog') <= Len(wlog) + ChunkSize)]_vars

\* With pause and stop both set the engine has returned Cancelled after some
\* chunks, this invocation never having sat in the pause wait.
C28_Witness ==
    /\ Returned("cancelled")
    /\ pause_flag
    /\ stop_flag
    /\ ~waited
    /\ copied_bytes > 0

C31_PausedBetweenFilesIdle ==
    [][(pc \in {"check_stop", "pause_wait", "verdict"} /\ pause_flag /\ ~stop_flag) =>
        /\ hist'.started = hist.started
        /\ file_notes' = file_notes
        /\ pc' \notin EnginePcs]_vars

\* C31 amended: the worker polls pause once per file, at line 407.  While it
\* is at that poll with pause set and stop not set it stays there and does
\* nothing: no notification, no verdict, no call of the engine, no counter
\* changes; and it comes to the next file's notifications and verdict only
\* from a poll that read pause as clear or stop as set.  (A pause raised
\* after the poll holds back nothing until the engine's loop reads it.)
C31_PollHoldsNextFile ==
    /\ [][(pc = "pause_wait" /\ pause_flag /\ ~stop_flag) =>
            /\ pc' = "pause_wait"
            /\ hist' = hist
            /\ file_notes' = file_notes
            /\ last_note' = last_note
            /\ cnt' = cnt
            /\ src' = src
            /\ tgt' = tgt]_vars
    /\ [][(pc' = "verdict" /\ pc # "verdict") =>
            (pc = "pause_wait" /\ (~pause_flag \/ stop_flag))]_vars

\* The worker waits at the poll before the second file, one file done.
C31_Witness ==
    /\ pc = "pause_wait"
    /\ pause_flag
    /\ ~stop_flag
    /\ index = 2
    /\ hist.started = 1

\* C32: the step that enters start_copy leaves pause_flag and stop_flag false
\* and the three counters at 0, whatever the flags were and however the run
\* before ended; the counters of the summary a run emits are the numbers of
\* files of that run that were copied, skipped and failed.
C32_RunStartsReset ==
    /\ [][(pc = "start" /\ pc' # "start") =>
            /\ ~pause_flag'
            /\ ~stop_flag'
            /\ copied' = 0
            /\ skipped' = 0
            /\ failed' = 0]_vars
    /\ [](pc = "done" =>
            LET s == summaries[Len(summaries)] IN
            /\ s.copied = hist.success
            /\ s.skipped = hist.skip
            /\ s.failed = hist.failed
            /\ s.copied + s.skipped + s.failed <= total)

\* A second run, started after a run that was stopped or cut short, has
\* completed with a summary that counts a copied file.
C32_Witness ==
    /\ run = 2
    /\ ~prev.clean
    /\ prev.total > 0
    /\ pc = "done"
    /\ summaries[Len(summaries)].kind = "complete"
    /\ summaries[Len(summaries)].copied > 0

C34_HashStoreOnlyOnHashSuccess ==
    /\ [][hash_db' # hash_db =>
            /\ detection_mode = "hash"
            /\ pc = "chunk"
            /\ result' = "success"
            /\ hash_db' = hash_db \cup {index}
            /\ hash_put' = Digest(tgt'.data)]_vars
    /\ [][(hash_put' # hash_put /\ hash_put' # 0) =>
            (detection_mode = "hash" /\ result' = "success" /\ index \in hash_db')]_vars
    /\ [](detection_mode = "fast" => hash_db = {})

\* The first file of a hash-mode run left no entry; the copy of the second
\* has returned Success and recorded its digest.
C34_Witness ==
    /\ Returned("success")
    /\ detection_mode = "hash"
    /\ hash_db = {2}
    /\ hash_put = Digest(tgt.data)
    /\ hist.started = 2

\* C35: the copy of a zero-length source that returns Success has written no
\* chunk, has reported 100 as its only progress value and leaves an existing,
\* empty target.
C35_EmptySourceEmptyTarget ==
    (Returned("success") /\ file_size = 0) =>
        /\ wlog = <<>>
        /\ file_notes = <<Note(0, "start"), Note(100, "final")>>
        /\ tgt.exists
        /\ tgt.data = <<>>

====
